---------------------------- MODULE Spec2Model ----------------------------
(***************************************************************************)
(* Classification and de-duplication pipeline of the AI news aggregator    *)
(* (src/src/article_classifier.py), the run that drives it                 *)
(* (src/src/main.py), and clean_text and RateLimiter (src/src/utils.py).   *)
(*                                                                         *)
(* Representation.                                                         *)
(*  - A Python value that may be None is a sequence of length 0 or 1:      *)
(*    <<>> is None, <<v>> is the value v.                                  *)
(*  - A confidence is an integer number of hundredths (0.7 is 70).         *)
(*  - A text is a sequence of lexemes [k, v]: "dollar" is the character $, *)
(*    "num" a maximal literal \d+(\.\d+)? of value v / NumScale, "ws" one  *)
(*    whitespace character, "billion" / "million" those words in any case, *)
(*    "B" / "M" those letters in any case, "word" any other text (not      *)
(*    starting with b or m).  len() of a text is its number of lexemes.    *)
(*  - A reason string is a sequence of tokens [k, n]: a literal piece of   *)
(*    text k, or the formatted funding suffix carrying the amount n.       *)
(*  - An article carries id, its position in the input, which stands for   *)
(*    the identity of the Python dict.                                     *)
(*  - The argument of clean_text is a sequence of characters.              *)
(*  - The times of the RateLimiter are whole seconds.                      *)
(***************************************************************************)
EXTENDS Integers, Sequences, FiniteSets, TLC

VARIABLES
    pc,             \* which call is running and where it stands
    c_article,      \* classify: the article argument
    c_response,     \* classify: what the judge call does for this article
    c_result,       \* classify: <<>> before the call, <<returned dict>> after
    c_bucket,       \* the bucket the classify_batch body puts c_result in
    articles,       \* classify_batch: the input list
    idx,            \* classify_batch: number of loop iterations completed
    results,        \* classify_batch: the dict of the three bucket lists
    judge_calls,    \* what the judge did at each call so far, in call order
    tier1_articles, \* detect_duplicates: the input list
    i,              \* detect_duplicates: index of the outer loop (1-based)
    j,              \* detect_duplicates: index of the inner loop (1-based)
    group,          \* detect_duplicates: the group being built
    groups,         \* detect_duplicates: the groups closed so far
    processed,      \* detect_duplicates: the set of merged indices
    result_groups,  \* detect_duplicates: the returned list
    oracle_calls,   \* the pairs given to the oracle and its answers, in order
    ct_text,        \* clean_text: the argument
    ct_once,        \* clean_text: <<>> before the call, <<returned text>> after
    ct_twice,       \* clean_text: <<what the call on the returned text gave>>
    dedup_config,   \* run: what reading the configuration file gave
    dedup_enabled,  \* run: self.dedup_enabled
    article_groups, \* run: the groups handed to _process_tier1
    g_idx,          \* _process_tier1: number of groups gone through
    group_outcomes, \* _process_tier1: how each group gone through ended
    processed_count, \* _process_tier1: the counter it returns
    sheet_rows,     \* the rows append_row has stored, in order
    review_tab,     \* <<>> or <<the list save_to_review_tab has stored>>
    rejected_log,   \* <<>> or <<the list save_rejected_log has stored>>
    max_calls,      \* RateLimiter: self.max_calls
    time_window,    \* RateLimiter: self.time_window, in seconds
    calls,          \* RateLimiter: self.calls, the times recorded
    now,            \* RateLimiter: the clock, in seconds
    rl_last,        \* RateLimiter: the caller's last operation
    rl_disciplined  \* RateLimiter: every record_call so far came right
                    \* after a can_proceed that returned True

classifyVars == <<c_article, c_response, c_result, c_bucket>>
batchVars == <<articles, idx, results, judge_calls>>
dedupVars == <<tier1_articles, i, j, group, groups, processed, result_groups,
               oracle_calls>>
cleanVars == <<ct_text, ct_once, ct_twice>>
runVars == <<dedup_config, dedup_enabled, article_groups, g_idx,
             group_outcomes, processed_count, sheet_rows, review_tab,
             rejected_log>>
rateVars == <<max_calls, time_window, calls, now, rl_last, rl_disciplined>>
vars == <<pc, classifyVars, batchVars, dedupVars, cleanVars, runVars,
          rateVars>>

None == <<>>
Some(v) == <<v>>

Max(a, b) == IF a >= b THEN a ELSE b

----------------------------------------------------------------------------
(* Texts *)

Lex(k, v) == [k |-> k, v |-> v]
Dollar == Lex("dollar", 0)
Ws == Lex("ws", 0)
Word == Lex("word", 0)
Unit(u) == Lex(u, 0)
\* a numeric literal; v is its value times NumScale ("0.5" is NumScale \div 2)
NumScale == 10 * 1000 * 1000
Num(whole) == Lex("num", whole * NumScale)

MultBillion == 1000000000
MultMillion == 1000000

\* the list with both billion patterns in front
patterns_BillionsFirst ==
    << [unit |-> "billion", ws |-> TRUE,  multiplier |-> MultBillion],
       [unit |-> "B",       ws |-> FALSE, multiplier |-> MultBillion],
       [unit |-> "million", ws |-> TRUE,  multiplier |-> MultMillion],
       [unit |-> "M",       ws |-> FALSE, multiplier |-> MultMillion] >>

\* the four regular expressions and their multipliers, in list order
patterns ==
    << [unit |-> "billion", ws |-> TRUE,  multiplier |-> MultBillion],
       [unit |-> "million", ws |-> TRUE,  multiplier |-> MultMillion],
       [unit |-> "B",       ws |-> FALSE, multiplier |-> MultBillion],
       [unit |-> "M",       ws |-> FALSE, multiplier |-> MultMillion] >>

\* re.IGNORECASE literal match of the unit at the start of lexeme l:
\* the letter B also matches the first letter of the word billion, M of million
StartsWithUnit(l, unit) ==
    CASE unit = "billion" -> l.k = "billion"
      [] unit = "million" -> l.k = "million"
      [] unit = "B" -> l.k \in {"B", "billion"}
      [] unit = "M" -> l.k \in {"M", "million"}

\* \s* : the first position from p on that holds no whitespace
RECURSIVE SkipWs(_, _)
SkipWs(text, p) ==
    IF p <= Len(text) /\ text[p].k = "ws" THEN SkipWs(text, p + 1) ELSE p

\* does pattern pat match text starting exactly at position s
MatchAt(pat, text, s) ==
    /\ s + 1 <= Len(text)
    /\ text[s].k = "dollar"
    /\ text[s + 1].k = "num"
    /\ LET q == IF pat.ws THEN SkipWs(text, s + 2) ELSE s + 2
       IN  q <= Len(text) /\ StartsWithUnit(text[q], pat.unit)

\* re.search(pattern, text, re.IGNORECASE): group(1) of the leftmost match
re_search(pat, text) ==
    LET hits == {s \in 1..Len(text) : MatchAt(pat, text, s)}
    IN  IF hits = {} THEN None
        ELSE LET s == CHOOSE x \in hits : \A y \in hits : x <= y
             IN  Some(text[s + 1].v)

\* int(float(group) * multiplier): truncation toward zero of v/NumScale * m
Amount(v, multiplier) ==
    IF multiplier >= NumScale
    THEN v * (multiplier \div NumScale)
    ELSE v \div (NumScale \div multiplier)

_extract_money_amount(text) ==
    LET hit == {n \in 1..Len(patterns) : re_search(patterns[n], text) # None}
    IN  IF hit = {} THEN None
        ELSE LET n == CHOOSE x \in hit : \A y \in hit : x <= y
             IN  Some(Amount(re_search(patterns[n], text)[1],
                             patterns[n].multiplier))

----------------------------------------------------------------------------
(* Reasons *)

Lit(s) == [k |-> s, n |-> 0]
\* f" (Funding ${money:,} below threshold)"
FundingSuffix(money) == [k |-> " (Funding $%,d below threshold)", n |-> money]

----------------------------------------------------------------------------
(* classify and the rule overlay *)

min_amount == 50000000

\* if money:  (None and 0 are both falsy)
Truthy(money) == money # None /\ money[1] # 0

\* the overlay without the category test
_apply_rules_AnyCategory(result, article) ==
    LET text == article.title \o <<Ws>> \o article.summary
        money == _extract_money_amount(text)
    IN  IF Truthy(money) /\ money[1] < min_amount
        THEN [result EXCEPT
                !.relevant = FALSE,
                !.confidence = Max(result.confidence - 30, 0),
                !.reason = result.reason \o <<FundingSuffix(money[1])>>]
        ELSE result

_apply_rules(result, article) ==
    IF result.category = Some("enterprise_strategy")
    THEN LET text == article.title \o <<Ws>> \o article.summary
             money == _extract_money_amount(text)
         IN  IF Truthy(money) /\ money[1] < min_amount
             THEN [result EXCEPT
                     !.relevant = FALSE,
                     !.confidence = Max(result.confidence - 30, 0),
                     !.reason = result.reason \o <<FundingSuffix(money[1])>>]
             ELSE result
    ELSE result

_error_result(article, error) ==
    [relevant |-> FALSE,
     category |-> None,
     tier |-> None,
     confidence |-> 0,
     reason |-> <<Lit("Classification error: ")>> \o error,
     key_signals |-> <<>>,
     article |-> article]

Keys == {"relevant", "category", "tier", "confidence", "reason", "key_signals"}

\* result.get(key, default) on the parsed response
Get(response, key, default) ==
    IF key \in response.has THEN response[key] ELSE default

Raise(exc) == [raised |-> TRUE, exc |-> exc]
Return(value) == [raised |-> FALSE, value |-> value]

\* the normalisation with result.get('relevant', True)
Normalize_RelevantByDefault(article, response) ==
    [relevant |-> Get(response, "relevant", TRUE),
     category |-> Get(response, "category", None),
     tier |-> Get(response, "tier", None),
     confidence |-> Get(response, "confidence", Some(0))[1],
     reason |-> Get(response, "reason", <<>>),
     key_signals |-> Get(response, "key_signals", <<>>),
     article |-> article]

\* the normalised dict built from the parsed response
Normalize(article, response) ==
    [relevant |-> Get(response, "relevant", FALSE),
     category |-> Get(response, "category", None),
     tier |-> Get(response, "tier", None),
     confidence |-> Get(response, "confidence", Some(0))[1],
     reason |-> Get(response, "reason", <<>>),
     key_signals |-> Get(response, "key_signals", <<>>),
     article |-> article]

\* the body of the try block: the judge call, json.loads, the normalisation,
\* the rule overlay.  The prompt is built before the try statement from the
\* configured template and the article's fields alone; it does not depend on
\* the judge and is taken to succeed.
TryBody(article, response) ==
    CASE response.kind = "call_failure" -> Raise("Exception")
      [] response.kind = "malformed_body" -> Raise("JSONDecodeError")
      [] OTHER ->
           IF Get(response, "confidence", Some(0)) = None
           THEN Raise("TypeError")           \* float(None)
           ELSE Return(_apply_rules(Normalize(article, response), article))

\* classify with only the first except clause
classify_OnlyJsonError(article, response) ==
    LET body == TryBody(article, response)
    IN  IF ~body.raised THEN Return(body.value)
        ELSE IF body.exc = "JSONDecodeError"
             THEN Return(_error_result(article,
                            <<Lit("JSON parse error: "), Lit(body.exc)>>))
             ELSE body

\* classify without the try statement
classify_NoCatch(article, response) == TryBody(article, response)

\* the two except clauses
classify(article, response) ==
    LET body == TryBody(article, response)
    IN  IF ~body.raised THEN Return(body.value)
        ELSE IF body.exc = "JSONDecodeError"
             THEN Return(_error_result(article,
                            <<Lit("JSON parse error: "), Lit(body.exc)>>))
             ELSE Return(_error_result(article, <<Lit(body.exc)>>))

\* the rule with exclusive thresholds
TierOf_Exclusive(classification) ==
    IF ~classification.relevant THEN "rejected"
    ELSE IF classification.tier = Some(1) /\ classification.confidence > 70
         THEN "tier1"
    ELSE IF classification.tier = Some(2) /\ classification.confidence > 60
         THEN "tier2"
    ELSE "rejected"

\* the four-branch rule of the classify_batch body
TierOf(classification) ==
    IF ~classification.relevant THEN "rejected"
    ELSE IF classification.tier = Some(1) /\ classification.confidence >= 70
         THEN "tier1"
    ELSE IF classification.tier = Some(2) /\ classification.confidence >= 60
         THEN "tier2"
    ELSE "rejected"

----------------------------------------------------------------------------
(* What the judge service may do at one call *)

Json(has, relevant, category, tier, confidence, reason, key_signals) ==
    [kind |-> "json", has |-> has,
     relevant |-> IF "relevant" \in has THEN relevant ELSE FALSE,
     category |-> IF "category" \in has THEN category ELSE None,
     tier |-> IF "tier" \in has THEN tier ELSE None,
     confidence |-> IF "confidence" \in has THEN confidence ELSE Some(0),
     reason |-> IF "reason" \in has THEN reason ELSE <<>>,
     key_signals |-> IF "key_signals" \in has THEN key_signals ELSE <<>>]

NoBody(kind) ==
    [kind |-> kind, has |-> {}, relevant |-> FALSE, category |-> None,
     tier |-> None, confidence |-> Some(0), reason |-> <<>>,
     key_signals |-> <<>>]

CallFailure == NoBody("call_failure")
MalformedBody == NoBody("malformed_body")

Categories == {None, Some("enterprise_strategy"), Some("research")}
Tiers == {None, Some(1), Some(2)}
Confidences == {0 - 10, 20, 59, 60, 69, 70, 100, 120}
JudgeReason == <<Lit("judge reason")>>
JudgeSignals == <<"signal">>

\* every field present
FullResponses ==
    {Json(Keys, r, c, t, Some(cf), JudgeReason, JudgeSignals) :
        r \in BOOLEAN, c \in Categories, t \in Tiers, cf \in Confidences}

\* any subset of the fields omitted, with or without a field the
\* normalisation does not read
PartialResponses ==
    {Json(h, TRUE, Some("enterprise_strategy"), Some(1), Some(90),
          JudgeReason, JudgeSignals) : h \in SUBSET (Keys \cup {"extra_field"})}

\* "confidence": null
NullConfidence ==
    Json(Keys, TRUE, Some("research"), Some(1), None, JudgeReason, JudgeSignals)

JudgeResponses ==
    FullResponses \cup PartialResponses
        \cup {NullConfidence, CallFailure, MalformedBody}

----------------------------------------------------------------------------
(* Article texts *)

MaxSummaryPhrases == 1

Phrases ==
    { <<Word>>,
      <<Dollar, Num(40), Ws, Unit("million")>>,
      <<Dollar, Num(90), Ws, Unit("million")>>,
      <<Dollar, Num(50), Ws, Unit("million")>>,
      <<Dollar, Num(0), Ws, Unit("million")>>,
      <<Dollar, Num(30), Unit("M")>>,
      <<Dollar, Num(1), Ws, Unit("billion")>>,
      <<Dollar, Num(2), Unit("B")>>,
      <<Unit("million")>> }

RECURSIVE PhraseSeqs(_)
PhraseSeqs(n) ==
    IF n = 0 THEN {<<>>}
    ELSE PhraseSeqs(n - 1)
           \cup {t \o p : t \in PhraseSeqs(n - 1), p \in Phrases}

Titles == { <<>>, <<Word>>, <<Dollar, Num(40)>>, <<Dollar, Num(2), Unit("B")>> }

Article(id, title, summary, source) ==
    [id |-> id, title |-> title, summary |-> summary, source |-> source]

IdleArticle == Article(0, <<>>, <<>>, "a")

----------------------------------------------------------------------------
(* One call of classify, followed by the tier decision of classify_batch *)

IdleBatch ==
    /\ articles = <<>>
    /\ idx = 0
    /\ results = [tier1 |-> <<>>, tier2 |-> <<>>, rejected |-> <<>>]
    /\ judge_calls = <<>>

IdleDedup ==
    /\ tier1_articles = <<>>
    /\ i = 0
    /\ j = 0
    /\ group = <<>>
    /\ groups = <<>>
    /\ processed = {}
    /\ result_groups = <<>>
    /\ oracle_calls = <<>>

IdleClean ==
    /\ ct_text = <<>>
    /\ ct_once = None
    /\ ct_twice = None

\* no operation has used the rate limiter
NoOperation == [op |-> "none", result |-> FALSE, at |-> 0, dropped |-> 0]

IdleRate ==
    /\ max_calls = 0
    /\ time_window = 0
    /\ calls = <<>>
    /\ now = 0
    /\ rl_last = NoOperation
    /\ rl_disciplined = TRUE

IdleRun ==
    /\ dedup_config = [readable |-> FALSE, enabled |-> None]
    /\ dedup_enabled = FALSE
    /\ article_groups = <<>>
    /\ g_idx = 0
    /\ group_outcomes = <<>>
    /\ processed_count = 0
    /\ sheet_rows = <<>>
    /\ review_tab = None
    /\ rejected_log = None

IdleClassify ==
    /\ c_article = IdleArticle
    /\ c_response = CallFailure
    /\ c_result = None
    /\ c_bucket = "none"

InitClassify ==
    /\ pc = "classify"
    /\ c_article \in {Article(1, t, s, "a") :
                        t \in Titles, s \in PhraseSeqs(MaxSummaryPhrases)}
    /\ c_response \in JudgeResponses
    /\ c_result = None
    /\ c_bucket = "none"
    /\ IdleBatch
    /\ IdleDedup
    /\ IdleClean
    /\ IdleRun
    /\ IdleRate

ClassifyOne ==
    /\ pc = "classify"
    /\ LET outcome == classify(c_article, c_response)
       IN  IF outcome.raised
           THEN /\ pc' = "raised"
                /\ c_result' = None
                /\ c_bucket' = "none"
           ELSE /\ pc' = "classified"
                /\ c_result' = Some(outcome.value)
                /\ c_bucket' = TierOf(outcome.value)
    /\ UNCHANGED <<c_article, c_response, batchVars, dedupVars>>
    /\ UNCHANGED <<cleanVars, runVars, rateVars>>

NextClassify == ClassifyOne

SpecClassify == InitClassify /\ [][NextClassify]_vars

----------------------------------------------------------------------------
(* classify_batch *)

MaxBatch == 3

Buckets == {"tier1", "tier2", "rejected"}

\* the chain without its final else
PutInBucket_NoElse(res, classification) ==
    IF ~classification.relevant
    THEN [res EXCEPT !.rejected = Append(@, classification)]
    ELSE IF TierOf(classification) = "rejected" THEN res
    ELSE [res EXCEPT ![TierOf(classification)] = Append(@, classification)]

\* the chain with insert(0, classification) for append(classification)
PutInBucket_Prepend(res, classification) ==
    [res EXCEPT ![TierOf(classification)] = <<classification>> \o @]

\* the chain storing a rejected item with its tier cleared
PutInBucket_ClearTier(res, classification) ==
    [res EXCEPT ![TierOf(classification)] =
       Append(@, IF TierOf(classification) = "rejected"
                 THEN [classification EXCEPT !.tier = None]
                 ELSE classification)]

\* the if / elif / elif / else that appends the classification to one list
PutInBucket(res, classification) ==
    [res EXCEPT ![TierOf(classification)] = Append(@, classification)]

BatchTexts == { <<Word>>, <<Dollar, Num(40), Ws, Unit("million")>> }

BatchResponses ==
    { Json(Keys, TRUE, Some("enterprise_strategy"), Some(1), Some(100),
           JudgeReason, JudgeSignals),
      Json(Keys, TRUE, Some("research"), Some(2), Some(60),
           JudgeReason, JudgeSignals),
      Json(Keys, FALSE, None, None, Some(20), JudgeReason, JudgeSignals),
      Json({"relevant", "tier"}, TRUE, None, Some(1), Some(0), <<>>, <<>>),
      NullConfidence,
      CallFailure,
      MalformedBody }

Batches ==
    UNION {[1..n -> BatchTexts] : n \in 0..MaxBatch}

InitBatch ==
    /\ pc = "classify_batch"
    /\ \E b \in Batches :
         articles = [k \in 1..Len(b) |-> Article(k, <<Word>>, b[k], "a")]
    /\ idx = 0
    /\ results = [tier1 |-> <<>>, tier2 |-> <<>>, rejected |-> <<>>]
    /\ judge_calls = <<>>
    /\ IdleClassify
    /\ IdleDedup
    /\ IdleClean
    /\ IdleRun
    /\ IdleRate

\* the loop staying at an item whose classification is the error result
NextItem_RetryOnError(k, classification) ==
    IF classification.category = None /\ classification.confidence = 0
    THEN k
    ELSE k + 1

\* for i, article in enumerate(articles, 1): the next item, whatever the
\* classification of this one
NextItem(k, classification) == k + 1

\* one iteration of the for loop: classify, then the tier decision, the judge
\* answering with one of Responses
ClassifyStepOf(Responses) ==
    /\ pc = "classify_batch"
    /\ idx < Len(articles)
    /\ \E response \in Responses :
         LET outcome == classify(articles[idx + 1], response)
         IN  /\ judge_calls' = Append(judge_calls, response)
             /\ IF outcome.raised
                THEN /\ pc' = "raised"
                     /\ UNCHANGED <<idx, results>>
                ELSE /\ pc' = pc
                     /\ idx' = NextItem(idx, outcome.value)
                     /\ results' = PutInBucket(results, outcome.value)
    /\ UNCHANGED <<articles, classifyVars, dedupVars>>
    /\ UNCHANGED <<cleanVars, runVars, rateVars>>

BatchReturn ==
    /\ pc = "classify_batch"
    /\ idx = Len(articles)
    /\ pc' = "batch_done"
    /\ UNCHANGED <<batchVars, classifyVars, dedupVars>>
    /\ UNCHANGED <<cleanVars, runVars, rateVars>>

ClassifyStep == ClassifyStepOf(BatchResponses)

NextBatch == ClassifyStep \/ BatchReturn

SpecBatch == InitBatch /\ [][NextBatch]_vars

\* classify_batch as a function of the input list and of what the judge does
\* at each call: the state after the first n iterations
RECURSIVE RunBatch(_, _, _)
RunBatch(arts, responses, n) ==
    IF n = 0
    THEN [raised |-> FALSE,
          results |-> [tier1 |-> <<>>, tier2 |-> <<>>, rejected |-> <<>>]]
    ELSE LET prev == RunBatch(arts, responses, n - 1)
             outcome == classify(arts[n], responses[n])
         IN  IF prev.raised \/ outcome.raised
             THEN [raised |-> TRUE, results |-> prev.results]
             ELSE [raised |-> FALSE,
                   results |-> PutInBucket(prev.results, outcome.value)]

----------------------------------------------------------------------------
(* What the equivalence oracle may do at one call *)

OJson(has, same_event, confidence) ==
    [kind |-> "json", has |-> has,
     same_event |-> IF "same_event" \in has THEN same_event ELSE FALSE,
     confidence |-> IF "confidence" \in has THEN confidence ELSE Some(0)]

ONoBody(kind) ==
    [kind |-> kind, has |-> {}, same_event |-> FALSE, confidence |-> Some(0)]

OracleResponses ==
    { ONoBody("call_failure"),
      ONoBody("malformed_body"),
      OJson({"same_event", "confidence"}, TRUE, Some(80)),
      OJson({"same_event", "confidence"}, TRUE, Some(79)),
      OJson({"same_event", "confidence"}, FALSE, Some(90)) }

\* a wider choice of answers: same_event true well above, at and below the
\* threshold, same_event false, same_event missing, no answer
AnswerResponses ==
    { ONoBody("call_failure"),
      OJson({"same_event", "confidence"}, TRUE, Some(90)),
      OJson({"same_event", "confidence"}, TRUE, Some(80)),
      OJson({"same_event", "confidence"}, TRUE, Some(79)),
      OJson({"same_event", "confidence"}, FALSE, Some(90)),
      OJson({"confidence"}, FALSE, Some(90)) }

\* threshold: float = 0.8
threshold == 80

\* the body of the try block of _is_duplicate
TryDuplicate(title1, title2, thr, response) ==
    CASE response.kind = "call_failure" -> Raise("Exception")
      [] response.kind = "malformed_body" -> Raise("JSONDecodeError")
      [] OTHER ->
           LET same == Get(response, "same_event", FALSE)
               confidence == Get(response, "confidence", Some(0))
           IN  IF confidence = None
               THEN Raise("TypeError")
               ELSE Return(same /\ confidence[1] >= thr)

\* _is_duplicate with the threshold exclusive: confidence > threshold
_is_duplicate_StrictThreshold(title1, title2, thr, response) ==
    LET body == TryDuplicate(title1, title2, thr + 1, response)
    IN  IF body.raised THEN Return(FALSE) ELSE body

\* _is_duplicate that takes a failed check for a duplicate
_is_duplicate_FailClosed(title1, title2, thr, response) ==
    LET body == TryDuplicate(title1, title2, thr, response)
    IN  IF body.raised THEN Return(TRUE) ELSE body

\* _is_duplicate without the confidence test
_is_duplicate_NoThreshold(title1, title2, thr, response) ==
    IF response.kind = "json"
    THEN Return(Get(response, "same_event", FALSE))
    ELSE Return(FALSE)

_is_duplicate(title1, title2, thr, response) ==
    LET body == TryDuplicate(title1, title2, thr, response)
    IN  IF body.raised THEN Return(FALSE) ELSE body

\* what the log keeps of one oracle call
OracleCall(a, b, response) ==
    LET failed == TryDuplicate(<<>>, <<>>, 0, response).raised
    IN  [i |-> a, j |-> b, failed |-> failed,
         has |-> IF failed THEN {} ELSE response.has,
         same |-> ~failed /\ Get(response, "same_event", FALSE),
         confidence |-> IF failed THEN 0
                        ELSE Get(response, "confidence", Some(0))[1]]

----------------------------------------------------------------------------
(* detect_duplicates *)

MaxTier1 == 3

source_priority == [a |-> 1, b |-> 2]
DefaultPriority == 999

\* source_priority.get(source, 0): a source without a priority comes first
PriorityOf_DefaultFirst(source) ==
    IF source \in DOMAIN source_priority
    THEN source_priority[source] ELSE 0

\* source_priority.get(source, 999)
PriorityOf(source) ==
    IF source \in DOMAIN source_priority
    THEN source_priority[source] ELSE DefaultPriority

\* the key with the summary length not negated
SortKey_ShortFirst(x) ==
    <<PriorityOf(x.article.source), Len(x.article.summary)>>

\* the key of group.sort
SortKey(x) ==
    <<PriorityOf(x.article.source), 0 - Len(x.article.summary)>>

\* tuple comparison
KeyLess(a, b) == a[1] < b[1] \/ (a[1] = b[1] /\ a[2] < b[2])

\* x put in front of every element whose key is not less than its own
InsertSorted_BeforeTies(sorted, x) ==
    LET later == {p \in 1..Len(sorted) :
                    ~KeyLess(SortKey(sorted[p]), SortKey(x))}
        at == IF later = {} THEN Len(sorted) + 1
              ELSE CHOOSE p \in later : \A q \in later : p <= q
    IN  SubSeq(sorted, 1, at - 1) \o <<x>> \o SubSeq(sorted, at, Len(sorted))

\* x put behind every element whose key is not greater than its own
InsertSorted(sorted, x) ==
    LET later == {p \in 1..Len(sorted) : KeyLess(SortKey(x), SortKey(sorted[p]))}
        at == IF later = {} THEN Len(sorted) + 1
              ELSE CHOOSE p \in later : \A q \in later : p <= q
    IN  SubSeq(sorted, 1, at - 1) \o <<x>> \o SubSeq(sorted, at, Len(sorted))

\* list.sort(key=...): the stable sort of the first n elements of g
RECURSIVE SortGroup(_, _)
SortGroup(g, n) ==
    IF n = 0 THEN <<>> ELSE InsertSorted(SortGroup(g, n - 1), g[n])

\* processed.add(j) left out
MarkProcessed_Forget(done, k) == done

\* processed.add(j)
MarkProcessed(done, k) == done \cup {k}

\* if i in processed / if j in processed, with the test always false
IsProcessed_Never(done, k) == FALSE

\* if i in processed / if j in processed
IsProcessed(done, k) == k \in done

\* the inner loop started at the anchor itself: tier1_articles[i:]
InnerStart_Self(anchor) == anchor

\* enumerate(tier1_articles[i+1:], i+1): the first position compared
InnerStart(anchor) == anchor + 1

\* the finished group put in front of the list
CloseGroup_Prepend(gs, g) == <<g>> \o gs

\* groups.append(group)
CloseGroup(gs, g) == Append(gs, g)

ItemKinds ==
    { [source |-> "a", summary |-> <<Word>>],
      [source |-> "a", summary |-> <<Word, Word>>],
      [source |-> "b", summary |-> <<Word, Word>>],
      [source |-> "z", summary |-> <<Word>>] }

\* a classified item as classify_batch puts it in tier1
Tier1Item(k, kind) ==
    [relevant |-> TRUE, category |-> Some("research"), tier |-> Some(1),
     confidence |-> 90, reason |-> JudgeReason, key_signals |-> JudgeSignals,
     article |-> Article(k, <<Word>>, kind.summary, kind.source)]

InitDedup ==
    /\ pc = "detect_duplicates"
    /\ \E n \in 0..MaxTier1 : \E kinds \in [1..n -> ItemKinds] :
         tier1_articles = [k \in 1..n |-> Tier1Item(k, kinds[k])]
    /\ i = 0
    /\ j = 0
    /\ group = <<>>
    /\ groups = <<>>
    /\ processed = {}
    /\ result_groups = <<>>
    /\ oracle_calls = <<>>
    /\ IdleClassify
    /\ IdleBatch
    /\ IdleClean
    /\ IdleRun
    /\ IdleRate

\* if not tier1_articles: return []
DedupEnter ==
    /\ pc = "detect_duplicates"
    /\ IF tier1_articles = <<>>
       THEN pc' = "dedup_done" /\ i' = i
       ELSE pc' = "outer" /\ i' = 1
    /\ UNCHANGED <<tier1_articles, j, group, groups, processed, result_groups,
                   oracle_calls, classifyVars, batchVars>>
    /\ UNCHANGED <<cleanVars, runVars, rateVars>>

\* one step of the outer for loop
OuterStep ==
    /\ pc = "outer"
    /\ i <= Len(tier1_articles)
    /\ IF IsProcessed(processed, i)
       THEN /\ i' = i + 1
            /\ UNCHANGED <<pc, j, group>>
       ELSE /\ group' = <<tier1_articles[i]>>
            /\ j' = InnerStart(i)
            /\ pc' = "inner"
            /\ i' = i
    /\ UNCHANGED <<tier1_articles, groups, processed, result_groups,
                   oracle_calls, classifyVars, batchVars>>
    /\ UNCHANGED <<cleanVars, runVars, rateVars>>

\* one step of the inner for loop over an unprocessed later item, the oracle
\* answering with one of Responses
InnerCompareOf(Responses) ==
    /\ pc = "inner"
    /\ j <= Len(tier1_articles)
    /\ ~IsProcessed(processed, j)
    /\ \E response \in Responses :
         LET title1 == tier1_articles[i].article.title
             title2 == tier1_articles[j].article.title
             outcome == _is_duplicate(title1, title2, threshold, response)
         IN  /\ oracle_calls' = Append(oracle_calls, OracleCall(i, j, response))
             /\ IF outcome.raised
                THEN /\ pc' = "raised"
                     /\ UNCHANGED <<j, group, processed>>
                ELSE /\ pc' = pc
                     /\ j' = j + 1
                     /\ IF outcome.value
                        THEN /\ group' = Append(group, tier1_articles[j])
                             /\ processed' = MarkProcessed(processed, j)
                        ELSE UNCHANGED <<group, processed>>
    /\ UNCHANGED <<tier1_articles, i, groups, result_groups, classifyVars,
                   batchVars>>
    /\ UNCHANGED <<cleanVars, runVars, rateVars>>

\* if j in processed: continue
InnerSkip ==
    /\ pc = "inner"
    /\ j <= Len(tier1_articles)
    /\ IsProcessed(processed, j)
    /\ j' = j + 1
    /\ UNCHANGED <<pc, tier1_articles, i, group, groups, processed,
                   result_groups, oracle_calls, classifyVars, batchVars>>
    /\ UNCHANGED <<cleanVars, runVars, rateVars>>

\* groups.append(group)
InnerExit ==
    /\ pc = "inner"
    /\ j > Len(tier1_articles)
    /\ groups' = CloseGroup(groups, group)
    /\ i' = i + 1
    /\ pc' = "outer"
    /\ UNCHANGED <<tier1_articles, j, group, processed, result_groups,
                   oracle_calls, classifyVars, batchVars>>
    /\ UNCHANGED <<cleanVars, runVars, rateVars>>

\* the second loop: every group sorted in place and appended to the result
SortGroups ==
    /\ pc = "outer"
    /\ i > Len(tier1_articles)
    /\ result_groups' =
         [g \in 1..Len(groups) |-> SortGroup(groups[g], Len(groups[g]))]
    /\ groups' = result_groups'
    /\ pc' = "dedup_done"
    /\ UNCHANGED <<tier1_articles, i, j, group, processed, oracle_calls,
                   classifyVars, batchVars>>
    /\ UNCHANGED <<cleanVars, runVars, rateVars>>

InnerCompare == InnerCompareOf(OracleResponses)

NextDedup ==
    \/ DedupEnter
    \/ OuterStep
    \/ InnerCompare
    \/ InnerSkip
    \/ InnerExit
    \/ SortGroups

SpecDedup == InitDedup /\ [][NextDedup]_vars

\* detect_duplicates on items of pairwise different kinds of source, with the
\* wider choice of oracle answers
SourceKinds ==
    { [source |-> "a", summary |-> <<Word>>],
      [source |-> "b", summary |-> <<Word, Word>>],
      [source |-> "z", summary |-> <<Word>>] }

InitDedupAnswers ==
    /\ pc = "detect_duplicates"
    /\ \E n \in 0..MaxTier1 : \E kinds \in [1..n -> SourceKinds] :
         tier1_articles = [k \in 1..n |-> Tier1Item(k, kinds[k])]
    /\ i = 0
    /\ j = 0
    /\ group = <<>>
    /\ groups = <<>>
    /\ processed = {}
    /\ result_groups = <<>>
    /\ oracle_calls = <<>>
    /\ IdleClassify
    /\ IdleBatch
    /\ IdleClean
    /\ IdleRun
    /\ IdleRate

InnerCompareAnswers == InnerCompareOf(AnswerResponses)

NextDedupAnswers ==
    \/ DedupEnter
    \/ OuterStep
    \/ InnerCompareAnswers
    \/ InnerSkip
    \/ InnerExit
    \/ SortGroups

SpecDedupAnswers == InitDedupAnswers /\ [][NextDedupAnswers]_vars

----------------------------------------------------------------------------
(* Properties of classify_batch *)

\* where the item made from input article k sits in the buckets
Where(res, k) ==
    {bp \in Buckets \X (1..Len(articles)) :
        /\ bp[2] <= Len(res[bp[1]])
        /\ res[bp[1]][bp[2]].article.id = k}

\* the (bucket, classification) pairs of input article k
ItemsOf(res, k) == {<<bp[1], res[bp[1]][bp[2]]>> : bp \in Where(res, k)}

\* C1: whatever the judge does at each call, classify_batch does not raise,
\* and after each iteration every item classified so far sits at exactly one
\* position of exactly one of the three buckets, so that the bucket lengths
\* add up to the number of items classified; at the return that is the input.
C1_PartitionTotality ==
    /\ pc \in {"classify_batch", "batch_done"}
    /\ Len(results.tier1) + Len(results.tier2) + Len(results.rejected) = idx
    /\ \A k \in 1..idx :
         /\ Cardinality(Where(results, k)) = 1
         /\ \A bp \in Where(results, k) :
              results[bp[1]][bp[2]].article = articles[k]
    /\ pc = "batch_done" => idx = Len(articles)

C1_Witness ==
    /\ pc = "batch_done"
    /\ Len(articles) = 3
    /\ Len(results.tier1) = 1
    /\ Len(results.tier2) = 1
    /\ Len(results.rejected) = 1
    /\ \E k \in 1..3 : judge_calls[k].kind = "call_failure"

Unparseable(response) ==
    \/ response.kind \in {"call_failure", "malformed_body"}
    \/ response = NullConfidence

\* C5: an item whose judge call failed, or whose response body could not be
\* read as the expected structure, does not make classify raise; its
\* classification is the sentinel (not relevant, no category, no tier,
\* confidence 0, no signals, reason starting with "Classification error: ")
\* and it sits in the rejected bucket.
C5_SentinelOnFailure ==
    /\ pc # "raised"
    /\ \A k \in 1..idx :
         Unparseable(judge_calls[k]) =>
           \E p \in 1..Len(results.rejected) :
             LET c == results.rejected[p]
             IN  /\ c.article = articles[k]
                 /\ c.relevant = FALSE
                 /\ c.category = None
                 /\ c.tier = None
                 /\ c.confidence = 0
                 /\ c.key_signals = <<>>
                 /\ Len(c.reason) >= 2
                 /\ c.reason[1] = Lit("Classification error: ")

C5_Witness ==
    /\ pc = "batch_done"
    /\ Len(articles) = 3
    /\ judge_calls[1].kind = "call_failure"
    /\ judge_calls[2].kind = "malformed_body"
    /\ Len(results.rejected) = 2
    /\ Len(results.tier1) = 1

\* C6: classify_batch never ends by an exception, and for every item k the
\* bucket and the classification of every other item are the same as in the
\* run in which the judge call for k fails (by the transport, by a malformed
\* body, or by a body of the wrong shape) and every other call is answered
\* as it was.
C6_FailureIsolation ==
    /\ pc # "raised"
    /\ \A k \in 1..idx :
         \A failure \in {CallFailure, MalformedBody, NullConfidence} :
           LET alt == RunBatch(articles,
                               [judge_calls EXCEPT ![k] = failure], idx)
           IN  /\ ~alt.raised
               /\ \A m \in (1..idx) \ {k} :
                    /\ ItemsOf(results, m) # {}
                    /\ ItemsOf(alt.results, m) = ItemsOf(results, m)

C6_Witness ==
    /\ pc = "batch_done"
    /\ Len(articles) = 3
    /\ judge_calls[2].kind = "json"
    /\ Where(results, 2) = {<<"tier2", 1>>}
    /\ Where(results, 1) = {<<"tier1", 1>>}
    /\ Where(results, 3) = {<<"rejected", 1>>}
    /\ Where(RunBatch(articles, [judge_calls EXCEPT ![2] = CallFailure],
                      3).results, 2) = {<<"rejected", 1>>}

----------------------------------------------------------------------------
(* Properties of one classification *)

\* the text the overlay scans
RuleText == c_article.title \o <<Ws>> \o c_article.summary

\* the overlay ran: the judge answered with a body of the expected shape
OverlayRan ==
    /\ pc = "classified"
    /\ c_response.kind = "json"
    /\ Get(c_response, "confidence", Some(0)) # None

\* C2: the bucket is decided by (relevant, tier, confidence) alone: rejected
\* if not relevant, else tier1 iff tier = 1 and confidence >= 0.7, else tier2
\* iff tier = 2 and confidence >= 0.6, else rejected; both thresholds are
\* inclusive and a relevant tier-1 item with confidence in [0.6, 0.7) is
\* rejected.
C2_TieringRule ==
    pc = "classified" =>
      LET c == c_result[1]
      IN  /\ c_bucket =
               IF ~c.relevant THEN "rejected"
               ELSE IF c.tier = <<1>> /\ c.confidence >= 70 THEN "tier1"
               ELSE IF c.tier = <<2>> /\ c.confidence >= 60 THEN "tier2"
               ELSE "rejected"
          /\ c.relevant /\ c.tier = <<1>> /\ c.confidence = 70
               => c_bucket = "tier1"
          /\ c.relevant /\ c.tier = <<1>> /\ c.confidence \in 60..69
               => c_bucket = "rejected"
          /\ c.relevant /\ c.tier = <<2>> /\ c.confidence = 60
               => c_bucket = "tier2"
          /\ c.relevant /\ c.tier = <<2>> /\ c.confidence = 59
               => c_bucket = "rejected"

C2_Witness ==
    /\ pc = "classified"
    /\ c_result[1].relevant
    /\ c_result[1].tier = <<1>>
    /\ c_result[1].confidence = 70
    /\ c_bucket = "tier1"

\* C7: for category "enterprise_strategy", an extracted amount below
\* 50,000,000 gives relevant = false, confidence = max(old - 0.3, 0) and the
\* old reason followed by the suffix recording the amount, the other fields
\* unchanged; an extracted amount of 50,000,000 or more leaves the judgment
\* untouched.
C7_MonetaryOverride ==
    LET old == Normalize(c_article, c_response)
        money == _extract_money_amount(RuleText)
    IN  (OverlayRan /\ old.category = <<"enterprise_strategy">>
           /\ money # None) =>
          IF money[1] < 50000000
          THEN c_result[1] =
                 [old EXCEPT
                    !.relevant = FALSE,
                    !.confidence = Max(old.confidence - 30, 0),
                    !.reason = old.reason \o <<FundingSuffix(money[1])>>]
          ELSE c_result[1] = old

\* C8: the overlay returns the judgment with every field as it was when the
\* category is not "enterprise_strategy", whatever amounts the text holds,
\* and when the category is "enterprise_strategy" and none of the four
\* patterns matches the text.
C8_OverlayFrame ==
    LET old == Normalize(c_article, c_response)
    IN  (/\ OverlayRan
         /\ \/ old.category # <<"enterprise_strategy">>
            \/ \A n \in 1..Len(patterns) : re_search(patterns[n], RuleText) = None)
          => c_result[1] = old

C8_Witness ==
    /\ OverlayRan
    /\ c_result[1].category = <<"research">>
    /\ _extract_money_amount(RuleText) = <<40000000>>
    /\ c_result[1].relevant
    /\ c_result[1].confidence = 100
    /\ c_result[1].reason = JudgeReason

----------------------------------------------------------------------------
(* Properties of detect_duplicates *)

\* the positions in the input of the members of a group
Ids(g) == {g[p].article.id : p \in 1..Len(g)}

\* the founding member of a group: its member that comes first in the input
AnchorOf(g) == CHOOSE a \in Ids(g) : \A b \in Ids(g) : a <= b

\* the oracle was asked about a and b (in either order)
Asked(a, b) ==
    \E n \in 1..Len(oracle_calls) :
       {oracle_calls[n].i, oracle_calls[n].j} = {a, b}

\* the oracle was asked about anchor a and later item b and confirmed the pair
Confirmed(a, b) ==
    \E n \in 1..Len(oracle_calls) :
       /\ oracle_calls[n].i = a
       /\ oracle_calls[n].j = b
       /\ ~oracle_calls[n].failed
       /\ oracle_calls[n].same
       /\ oracle_calls[n].confidence >= 80

\* the groups are a partition of the input, by position
GroupsPartition(gs) ==
    /\ \A g \in 1..Len(gs) : Len(gs[g]) >= 1
    /\ \A k \in 1..Len(tier1_articles) :
         Cardinality({gp \in (1..Len(gs)) \X (1..Len(tier1_articles)) :
                        /\ gp[2] <= Len(gs[gp[1]])
                        /\ gs[gp[1]][gp[2]] = tier1_articles[k]}) = 1

RECURSIVE SumLen(_, _)
SumLen(gs, n) == IF n = 0 THEN 0 ELSE SumLen(gs, n - 1) + Len(gs[n])

\* C3: whatever the oracle does, detect_duplicates returns groups that
\* partition its input: every group has at least one member, every input
\* item (by position) is in exactly one group at exactly one place, the
\* group lengths add up to the input length, and an empty input gives an
\* empty result.
C3_GroupsPartitionInput ==
    /\ pc # "raised"
    /\ pc = "dedup_done" =>
         /\ GroupsPartition(result_groups)
         /\ SumLen(result_groups, Len(result_groups)) = Len(tier1_articles)
         /\ tier1_articles = <<>> => result_groups = <<>>

C3_Witness ==
    /\ pc = "dedup_done"
    /\ Len(tier1_articles) = 3
    /\ Len(result_groups) = 2
    /\ Len(result_groups[1]) = 1
    /\ Len(result_groups[2]) = 2
    /\ \E n \in 1..Len(oracle_calls) : oracle_calls[n].failed
    /\ \E n \in 1..Len(oracle_calls) :
         oracle_calls[n].same /\ oracle_calls[n].confidence = 79

\* C4: a pair whose oracle call failed, or whose response could not be
\* parsed, is never put in one group, and detect_duplicates still returns a
\* partition of its input.
C4_FailOpen ==
    /\ pc # "raised"
    /\ \A n \in 1..Len(oracle_calls) :
         oracle_calls[n].failed =>
           /\ ~ {oracle_calls[n].i, oracle_calls[n].j} \subseteq Ids(group)
           /\ ~ \E g \in 1..Len(groups) :
                  {oracle_calls[n].i, oracle_calls[n].j} \subseteq Ids(groups[g])
           /\ ~ \E g \in 1..Len(result_groups) :
                  {oracle_calls[n].i, oracle_calls[n].j}
                      \subseteq Ids(result_groups[g])
    /\ pc = "dedup_done" => GroupsPartition(result_groups)

C4_Witness ==
    /\ pc = "dedup_done"
    /\ Len(tier1_articles) = 3
    /\ oracle_calls[1].failed
    /\ oracle_calls[1].i = 1 /\ oracle_calls[1].j = 2
    /\ Confirmed(1, 3)
    /\ Len(result_groups) = 2
    /\ Ids(result_groups[1]) = {1, 3}
    /\ Ids(result_groups[2]) = {2}

\* is sequence s a rearrangement of sequence t
IsPermutation(s, t) ==
    /\ Len(s) = Len(t)
    /\ \E f \in [1..Len(s) -> 1..Len(s)] :
         /\ \A p, q \in 1..Len(s) : p # q => f[p] # f[q]
         /\ \A p \in 1..Len(s) : s[p] = t[f[p]]

\* C9: the sort of the groups leaves every group with the same members, in
\* ascending order of source priority (999 for a source without a priority)
\* and, at equal priority, in descending order of synopsis length; so member
\* 0 has the lowest priority number of its group whatever its synopsis
\* length, and the longest synopsis among the members of that priority.
C9_GroupOrder ==
    [][pc' = "dedup_done" =>
         /\ Len(result_groups') = Len(groups)
         /\ \A g \in 1..Len(groups) :
              LET before == groups[g]
                  after == result_groups'[g]
                  Prio(x) == IF x.article.source = "a" THEN 1
                             ELSE IF x.article.source = "b" THEN 2
                             ELSE 999
                  Syn(x) == Len(x.article.summary)
              IN  /\ IsPermutation(after, before)
                  /\ \A p, q \in 1..Len(after) :
                       p < q =>
                         \/ Prio(after[p]) < Prio(after[q])
                         \/ /\ Prio(after[p]) = Prio(after[q])
                            /\ Syn(after[p]) >= Syn(after[q])
                  /\ \A q \in 1..Len(after) :
                       /\ Prio(after[1]) <= Prio(after[q])
                       /\ Prio(after[1]) = Prio(after[q])
                            => Syn(after[1]) >= Syn(after[q])]_vars

C9_Witness ==
    /\ pc = "dedup_done"
    /\ Len(result_groups) = 1
    /\ Len(result_groups[1]) = 3
    /\ result_groups[1][1].article.id = 3
    /\ result_groups[1][1].article.source = "a"
    /\ Len(result_groups[1][1].article.summary) = 1
    /\ result_groups[1][2].article.source = "b"
    /\ Len(result_groups[1][2].article.summary) = 2
    /\ result_groups[1][3].article.source = "z"

\* C10: grouping is by comparison with the anchor only.  Every other member
\* of a group was given to the oracle together with the group's anchor, and
\* the oracle answered same_event = true with confidence >= the threshold for
\* that pair; two members of a group that are not its anchor were never
\* given to the oracle together; and for an input A, B, C where the oracle
\* confirms (A, B) and does not confirm (A, C), the groups are {A, B} and
\* {C}, whatever the oracle would say of (B, C), which it is never asked.
C10_AnchorBased ==
    pc = "dedup_done" =>
      /\ \A g \in 1..Len(result_groups) :
           LET members == Ids(result_groups[g])
               anchor == AnchorOf(result_groups[g])
           IN  /\ \A m \in members \ {anchor} : Confirmed(anchor, m)
               /\ \A m1, m2 \in members \ {anchor} : ~Asked(m1, m2)
      /\ (Len(tier1_articles) = 3 /\ Confirmed(1, 2) /\ Asked(1, 3)
            /\ ~Confirmed(1, 3)) =>
           /\ Len(result_groups) = 2
           /\ Ids(result_groups[1]) = {1, 2}
           /\ Ids(result_groups[2]) = {3}
           /\ ~Asked(2, 3)

C10_Witness ==
    /\ pc = "dedup_done"
    /\ Len(tier1_articles) = 3
    /\ Confirmed(1, 2)
    /\ Asked(1, 3)
    /\ ~Confirmed(1, 3)
    /\ Len(oracle_calls) = 2
    /\ Len(result_groups) = 2
    /\ Ids(result_groups[1]) = {1, 2}
    /\ Ids(result_groups[2]) = {3}

\* C11: for an input A, B, C from three different sources where the oracle
\* answers same_event = true with confidence 0.9 for (A, B) and
\* same_event = false for (A, C), detect_duplicates returns exactly two
\* groups: first the group of A and B, the one whose source has the lower
\* priority number in front, then the group of C alone; (B, C) is never
\* given to the oracle, so its answer does not matter.
C11_ThreeItemScenario ==
    LET A == tier1_articles[1]
        B == tier1_articles[2]
        C == tier1_articles[3]
        Prio(x) == IF x.article.source = "a" THEN 1
                   ELSE IF x.article.source = "b" THEN 2
                   ELSE 999
    IN  ( /\ pc = "dedup_done"
          /\ Len(tier1_articles) = 3
          /\ Cardinality({A.article.source, B.article.source,
                          C.article.source}) = 3
          /\ Len(oracle_calls) >= 2
          /\ oracle_calls[1].i = 1 /\ oracle_calls[1].j = 2
          /\ oracle_calls[1].same /\ oracle_calls[1].confidence = 90
          /\ oracle_calls[2].i = 1 /\ oracle_calls[2].j = 3
          /\ "same_event" \in oracle_calls[2].has
          /\ ~oracle_calls[2].same )
        => /\ Len(oracle_calls) = 2
           /\ result_groups =
                << IF Prio(A) < Prio(B) THEN <<A, B>> ELSE <<B, A>>, <<C>> >>

C11_Witness ==
    /\ pc = "dedup_done"
    /\ Len(tier1_articles) = 3
    /\ tier1_articles[1].article.source = "z"
    /\ tier1_articles[2].article.source = "a"
    /\ tier1_articles[3].article.source = "b"
    /\ oracle_calls[1].same /\ oracle_calls[1].confidence = 90
    /\ oracle_calls[2].i = 1 /\ oracle_calls[2].j = 3
    /\ "same_event" \in oracle_calls[2].has
    /\ ~oracle_calls[2].same
    /\ Len(result_groups) = 2
    /\ result_groups[1] = <<tier1_articles[2], tier1_articles[1]>>
    /\ result_groups[2] = <<tier1_articles[3]>>

\* C18: the item compared with the anchor is appended to the anchor's group
\* and marked processed if and only if the oracle's answer has
\* same_event = true and confidence >= the threshold (0.8, inclusive); an
\* answer with same_event = true and a lower confidence, or with same_event
\* false or missing, changes neither the group nor the processed set.
C18_MergeRule ==
    [][oracle_calls' # oracle_calls =>
         LET c == oracle_calls'[Len(oracle_calls')]
             said_same == "same_event" \in c.has /\ c.same
         IN  /\ c.i = i /\ c.j = j
             /\ IF said_same /\ c.confidence >= 80
                THEN /\ group' = Append(group, tier1_articles[j])
                     /\ processed' = processed \cup {j}
                ELSE /\ group' = group
                     /\ processed' = processed]_vars

C18_Witness ==
    /\ pc = "dedup_done"
    /\ Len(tier1_articles) = 3
    /\ Len(oracle_calls) = 3
    /\ oracle_calls[1].same /\ oracle_calls[1].confidence = 79
    /\ oracle_calls[2].has = {"confidence"} /\ oracle_calls[2].confidence = 90
    /\ oracle_calls[3].same /\ oracle_calls[3].confidence = 80
    /\ Len(result_groups) = 2
    /\ Ids(result_groups[1]) = {1}
    /\ Ids(result_groups[2]) = {2, 3}

\* C19: every oracle call is made for a pair (i, j) with i < j where i is the
\* current anchor and neither i nor j is in processed at that moment; an
\* item in processed is never the anchor and is never given to the oracle
\* again; and no unordered pair is given to the oracle more than once.
C19_PairDiscipline ==
    [][ /\ oracle_calls' # oracle_calls =>
             LET c == oracle_calls'[Len(oracle_calls')]
             IN  /\ oracle_calls' = Append(oracle_calls, c)
                 /\ c.i = i /\ c.j = j
                 /\ c.i < c.j
                 /\ c.i \notin processed
                 /\ c.j \notin processed
                 /\ ~Asked(c.i, c.j)
        /\ pc' = "inner" =>
             /\ i' \notin processed'
             /\ group'[1] = tier1_articles[i'] ]_vars

C19_Witness ==
    /\ pc = "dedup_done"
    /\ Len(tier1_articles) = 3
    /\ processed = {2}
    /\ Len(oracle_calls) = 2
    /\ oracle_calls[1].i = 1 /\ oracle_calls[1].j = 2
    /\ oracle_calls[2].i = 1 /\ oracle_calls[2].j = 3
    /\ oracle_calls[2].failed

\* C20: detect_duplicates on n items makes at most n(n-1)/2 oracle calls,
\* and exactly n(n-1)/2 when no call finds a duplicate.
C20_CallBound ==
    LET n == Len(tier1_articles)
        found == {c \in 1..Len(oracle_calls) :
                    /\ ~oracle_calls[c].failed
                    /\ oracle_calls[c].same
                    /\ oracle_calls[c].confidence >= 80}
    IN  /\ Len(oracle_calls) <= (n * (n - 1)) \div 2
        /\ (pc = "dedup_done" /\ found = {})
             => Len(oracle_calls) = (n * (n - 1)) \div 2

C20_Witness ==
    /\ pc = "dedup_done"
    /\ Len(tier1_articles) = 3
    /\ Len(oracle_calls) = 3
    /\ oracle_calls[1].failed
    /\ oracle_calls[2].same /\ oracle_calls[2].confidence = 79
    /\ ~oracle_calls[3].failed /\ ~oracle_calls[3].same
    /\ Len(result_groups) = 3

\* the pairs the oracle confirmed, as the log has them
ConfirmedPairs ==
    {<<oracle_calls[c].i, oracle_calls[c].j>> : c \in
       {c \in 1..Len(oracle_calls) :
          /\ ~oracle_calls[c].failed
          /\ oracle_calls[c].same
          /\ oracle_calls[c].confidence >= 80}}

\* the members of a set of positions in ascending order
Ascending(S) ==
    [p \in 1..Cardinality(S) |->
       CHOOSE m \in S : Cardinality({x \in S : x < m}) = p - 1]

\* the groups, as sequences of input positions, founded by the anchors from
\* position a on, given the confirmed pairs and the positions already merged
RECURSIVE AnchorGroups(_, _, _, _)
AnchorGroups(n, dups, a, done) ==
    IF a > n THEN <<>>
    ELSE IF a \in done THEN AnchorGroups(n, dups, a + 1, done)
    ELSE LET members == {m \in (a + 1)..n : m \notin done /\ <<a, m>> \in dups}
         IN  << <<a>> \o Ascending(members) >>
               \o AnchorGroups(n, dups, a + 1, done \cup members)

\* the same groups with the items in place of the positions, each sorted
GroupsOf(items, dups) ==
    LET byPos == AnchorGroups(Len(items), dups, 1, {})
    IN  [g \in 1..Len(byPos) |->
           SortGroup([p \in 1..Len(byPos[g]) |-> items[byPos[g][p]]],
                     Len(byPos[g]))]

\* C16: the result of detect_duplicates is a function of its input, the
\* priority table, the threshold and the oracle's answers: it is the list of
\* groups founded by the unmerged items in input order, each holding its
\* anchor and the later unmerged items the oracle confirmed with it, sorted;
\* so the groups appear in the order of their anchors' input positions.
C16_Deterministic ==
    pc = "dedup_done" =>
      /\ result_groups = GroupsOf(tier1_articles, ConfirmedPairs)
      /\ \A g, h \in 1..Len(result_groups) :
           g < h => AnchorOf(result_groups[g]) < AnchorOf(result_groups[h])

C16_Witness ==
    /\ pc = "dedup_done"
    /\ Len(tier1_articles) = 3
    /\ ConfirmedPairs = {<<2, 3>>}
    /\ Len(result_groups) = 2
    /\ Ids(result_groups[1]) = {1}
    /\ result_groups[2] = <<tier1_articles[3], tier1_articles[2]>>

\* the default the normalisation gives a field the response omits
FieldDefault(key) ==
    CASE key = "relevant" -> FALSE
      [] key = "category" -> None
      [] key = "tier" -> None
      [] key = "confidence" -> 0
      [] key = "reason" -> <<>>
      [] key = "key_signals" -> <<>>

\* C12 as stated: for every well-formed response, whatever fields it omits
\* and whatever other fields it carries, classify does not raise and returns
\* a judgment with all six fields, every omitted field having its default
\* (false, none, none, 0.0, "", []); with all six omitted the item is not
\* relevant.
C12_DefaultsInReturn ==
    /\ pc # "raised"
    /\ OverlayRan =>
         /\ Keys \subseteq DOMAIN c_result[1]
         /\ \A key \in Keys \ c_response.has :
              c_result[1][key] = FieldDefault(key)
         /\ Keys \cap c_response.has = {} =>
              ~c_result[1].relevant /\ c_bucket = "rejected"

\* C12, amended: as above, except that an omitted reason is the empty default
\* only when the monetary override does not apply; when it applies (category
\* "enterprise_strategy", a non-zero amount below 50,000,000 in the text) the
\* returned reason is the default followed by the funding suffix.
C12_DefaultsBeforeOverlay ==
    /\ pc # "raised"
    /\ OverlayRan =>
         LET money == _extract_money_amount(RuleText)
             applies == /\ c_result[1].category = <<"enterprise_strategy">>
                        /\ money # None
                        /\ money[1] # 0
                        /\ money[1] < 50000000
         IN  /\ Keys \subseteq DOMAIN c_result[1]
             /\ \A key \in Keys \ (c_response.has \cup {"reason"}) :
                  c_result[1][key] = FieldDefault(key)
             /\ "reason" \notin c_response.has =>
                  c_result[1].reason =
                    IF applies THEN <<FundingSuffix(money[1])>> ELSE <<>>
             /\ Keys \cap c_response.has = {} =>
                  ~c_result[1].relevant /\ c_bucket = "rejected"

C12_Witness ==
    /\ OverlayRan
    /\ c_response.has = {"category", "tier", "extra_field"}
    /\ c_article.summary = <<Dollar, Num(40), Ws, Unit("million")>>
    /\ c_result[1].reason = <<FundingSuffix(40000000)>>
    /\ c_result[1].relevant = FALSE
    /\ c_result[1].confidence = 0
    /\ c_result[1].key_signals = <<>>
    /\ c_bucket = "rejected"

\* C13: every judgment classify returns has 0 <= confidence <= 1, whatever
\* structured response the judge gave and after the rule overlay has run.
C13_ConfidenceRange ==
    pc = "classified" =>
      /\ c_result[1].confidence >= 0
      /\ c_result[1].confidence <= 100

----------------------------------------------------------------------------
(* clean_text: a text is the sequence of its characters *)

\* the characters of the texts tried that \s matches
Whitespace == {" ", "\t", "\n"}

\* re.sub(r'\s+', ' ', text): every maximal run of whitespace becomes " "
RECURSIVE re_sub_whitespace(_)
re_sub_whitespace(text) ==
    IF text = <<>> THEN <<>>
    ELSE IF Head(text) \notin Whitespace
         THEN <<Head(text)>> \o re_sub_whitespace(Tail(text))
         ELSE IF Len(text) >= 2 /\ text[2] \in Whitespace
              THEN re_sub_whitespace(Tail(text))
              ELSE <<" ">> \o re_sub_whitespace(Tail(text))

RECURSIVE lstrip(_)
lstrip(text) ==
    IF text # <<>> /\ Head(text) \in Whitespace
    THEN lstrip(Tail(text)) ELSE text

RECURSIVE rstrip(_)
rstrip(text) ==
    IF text # <<>> /\ text[Len(text)] \in Whitespace
    THEN rstrip(SubSeq(text, 1, Len(text) - 1)) ELSE text

\* text.strip()
strip(text) == rstrip(lstrip(text))

\* clean_text without the strip
clean_text_NoStrip(text) ==
    IF text = <<>> THEN <<>> ELSE re_sub_whitespace(text)

clean_text(text) ==
    IF text = <<>> THEN <<>> ELSE strip(re_sub_whitespace(text))

MaxTextLen == 4

TextChars == Whitespace \cup {"a", "b"}

\* "  Test   text  ", the text the repository's structure test cleans
TestText ==
    <<" ", " ", "T", "e", "s", "t", " ", " ", " ", "t", "e", "x", "t", " ", " ">>

CleanInputs ==
    UNION {[1..n -> TextChars] : n \in 0..MaxTextLen} \cup {TestText}

InitClean ==
    /\ pc = "clean_text"
    /\ ct_text \in CleanInputs
    /\ ct_once = None
    /\ ct_twice = None
    /\ IdleClassify
    /\ IdleBatch
    /\ IdleDedup
    /\ IdleRun
    /\ IdleRate

\* clean_text(text)
CleanOnce ==
    /\ pc = "clean_text"
    /\ ct_once' = Some(clean_text(ct_text))
    /\ pc' = "cleaned"
    /\ UNCHANGED <<ct_text, ct_twice, classifyVars, batchVars, dedupVars,
                   runVars, rateVars>>

\* clean_text applied to what it returned
CleanAgain ==
    /\ pc = "cleaned"
    /\ ct_twice' = Some(clean_text(ct_once[1]))
    /\ pc' = "cleaned_twice"
    /\ UNCHANGED <<ct_text, ct_once, classifyVars, batchVars, dedupVars,
                   runVars, rateVars>>

NextClean == CleanOnce \/ CleanAgain

SpecClean == InitClean /\ [][NextClean]_vars

----------------------------------------------------------------------------
(* Properties of clean_text *)

\* the words of a text: its maximal runs of characters that are not whitespace
RECURSIVE WordsOf(_)
WordsOf(text) ==
    IF text = <<>> THEN <<>>
    ELSE IF Head(text) \in Whitespace THEN WordsOf(Tail(text))
    ELSE LET rest == WordsOf(Tail(text))
         IN  IF Len(text) >= 2 /\ text[2] \notin Whitespace
             THEN << <<Head(text)>> \o rest[1] >> \o Tail(rest)
             ELSE << <<Head(text)>> >> \o rest

\* the words with one space between neighbours
RECURSIVE JoinWords(_)
JoinWords(words) ==
    IF words = <<>> THEN <<>>
    ELSE IF Len(words) = 1 THEN words[1]
    ELSE words[1] \o <<" ">> \o JoinWords(Tail(words))

\* C17: clean_text returns the words of its argument with exactly one space
\* between neighbours: no whitespace character other than the space, no two
\* spaces in a row, no whitespace at either end, the other characters kept in
\* their order; the empty text gives the empty text; cleaning a cleaned text
\* changes nothing; and "  Test   text  " gives "Test text".
C17_CleanText ==
    pc \in {"cleaned", "cleaned_twice"} =>
      LET out == ct_once[1]
          IsSpace(c) == c \in Whitespace
          NotSpace(c) == c \notin Whitespace
      IN  /\ out = JoinWords(WordsOf(ct_text))
          /\ \A p \in 1..Len(out) : IsSpace(out[p]) => out[p] = " "
          /\ \A p \in 1..(Len(out) - 1) : ~(IsSpace(out[p]) /\ IsSpace(out[p + 1]))
          /\ out # <<>> => NotSpace(out[1]) /\ NotSpace(out[Len(out)])
          /\ SelectSeq(out, NotSpace) = SelectSeq(ct_text, NotSpace)
          /\ ct_text = <<>> => out = <<>>
          /\ ct_text = TestText
               => out = <<"T", "e", "s", "t", " ", "t", "e", "x", "t">>
          /\ pc = "cleaned_twice" => ct_twice[1] = out

C17_Witness ==
    /\ pc = "cleaned_twice"
    /\ ct_text = TestText
    /\ ct_once = << <<"T", "e", "s", "t", " ", "t", "e", "x", "t">> >>
    /\ ct_twice = ct_once

----------------------------------------------------------------------------
(* ArticleProcessor.run: discovery, classification, duplicate detection,
   tier-1 processing, tier-2 saving, rejected logging *)

MaxRun == 4

\* what the judge may do at one call of a run
RunResponses ==
    { Json(Keys, TRUE, Some("enterprise_strategy"), Some(1), Some(100),
           JudgeReason, JudgeSignals),
      Json(Keys, TRUE, Some("research"), Some(2), Some(60),
           JudgeReason, JudgeSignals),
      CallFailure }

\* what the oracle may do at one call of a run: fail, or confirm the pair
RunOracleResponses ==
    { ONoBody("call_failure"),
      OJson({"same_event", "confidence"}, TRUE, Some(80)) }

\* the feed an article of a run comes from
RunSource(k) == IF k % 2 = 1 THEN "z" ELSE "a"

\* what reading ../config/sources.yaml may give: an exception, or a mapping
\* whose duplicate_detection.enabled is true, false or missing
DedupConfigs ==
    { [readable |-> FALSE, enabled |-> None],
      [readable |-> TRUE, enabled |-> Some(TRUE)],
      [readable |-> TRUE, enabled |-> Some(FALSE)],
      [readable |-> TRUE, enabled |-> None] }

\* _load_dedup_config with the detection left on when the file cannot be read
_load_dedup_config_FailEnabled(config) ==
    IF ~config.readable THEN TRUE
    ELSE IF config.enabled = None THEN FALSE ELSE config.enabled[1]

\* the value _load_dedup_config gives self.dedup_enabled
_load_dedup_config(config) ==
    IF ~config.readable THEN FALSE
    ELSE IF config.enabled = None THEN FALSE ELSE config.enabled[1]

\* every classified item handed to the duplicate detection
DedupInput_AllRelevant(classified) == classified.tier1 \o classified.tier2

\* classified['tier1']
DedupInput(classified) == classified.tier1

\* what append_row is given for a group
SheetRow(g) ==
    [primary |-> g[1].article.id,
     category |-> g[1].category,
     confidence |-> g[1].confidence,
     duplicate_count |-> Len(g),
     duplicates |-> [p \in 1..(Len(g) - 1) |-> g[p + 1].article.id]]

InitRun ==
    /\ pc = "run"
    /\ \E n \in 0..MaxRun : \E b \in [1..n -> BatchTexts] :
         articles = [k \in 1..n |-> Article(k, <<Word>>, b[k], RunSource(k))]
    /\ idx = 0
    /\ results = [tier1 |-> <<>>, tier2 |-> <<>>, rejected |-> <<>>]
    /\ judge_calls = <<>>
    /\ dedup_config \in DedupConfigs
    /\ dedup_enabled = _load_dedup_config(dedup_config)
    /\ article_groups = <<>>
    /\ g_idx = 0
    /\ group_outcomes = <<>>
    /\ processed_count = 0
    /\ sheet_rows = <<>>
    /\ review_tab = None
    /\ rejected_log = None
    /\ IdleClassify
    /\ IdleDedup
    /\ IdleClean
    /\ IdleRate

\* articles = self._discover_articles(); if not articles: return
RunDiscover ==
    /\ pc = "run"
    /\ pc' = IF articles = <<>> THEN "run_done" ELSE "classify_batch"
    /\ UNCHANGED <<classifyVars, batchVars, dedupVars, cleanVars, runVars,
                   rateVars>>

RunClassifyStep == ClassifyStepOf(RunResponses)

\* article_groups = self._detect_duplicates(classified['tier1']), up to the
\* call of classifier.detect_duplicates
RunDetectDuplicates ==
    /\ pc = "batch_done"
    /\ LET input == DedupInput(results)
       IN  IF ~dedup_enabled \/ input = <<>>
           THEN /\ article_groups' = [k \in 1..Len(input) |-> <<input[k]>>]
                /\ pc' = "process_tier1"
                /\ UNCHANGED dedupVars
           ELSE /\ tier1_articles' = input
                /\ pc' = "detect_duplicates"
                /\ UNCHANGED <<article_groups, i, j, group, groups, processed,
                               result_groups, oracle_calls>>
    /\ UNCHANGED <<classifyVars, batchVars, cleanVars, rateVars, dedup_config,
                   dedup_enabled, g_idx, group_outcomes, processed_count,
                   sheet_rows, review_tab, rejected_log>>

RunInnerCompare == InnerCompareOf(RunOracleResponses)

\* return groups
RunTakeGroups ==
    /\ pc = "dedup_done"
    /\ article_groups' = result_groups
    /\ pc' = "process_tier1"
    /\ UNCHANGED <<classifyVars, batchVars, dedupVars, cleanVars, rateVars,
                   dedup_config, dedup_enabled, g_idx, group_outcomes,
                   processed_count, sheet_rows, review_tab, rejected_log>>

\* how the try block of one iteration may end: the row stored, append_row
\* returning False, or fetch, research or summarize raising
Outcomes ==
    {"saved", "not_saved", "fetch_error", "research_error", "summarize_error"}

\* how it may end in a run
RunOutcomes == {"saved", "fetch_error"}

\* processed_count += 1 whatever append_row returned
CountGroup_Always(count, outcome) ==
    IF outcome \in {"saved", "not_saved"} THEN count + 1 ELSE count

\* if success: processed_count += 1
CountGroup(count, outcome) ==
    IF outcome = "saved" THEN count + 1 ELSE count

\* one iteration of the loop of _process_tier1, ending in one of outcomes:
\* the row for the primary is stored when fetch, research and summarize
\* succeed and append_row returns True; an exception is caught and the loop
\* goes on
ProcessGroupOf(outcomes) ==
    /\ pc = "process_tier1"
    /\ g_idx < Len(article_groups)
    /\ g_idx' = g_idx + 1
    /\ \E outcome \in outcomes :
         /\ group_outcomes' =
              Append(group_outcomes,
                     [primary |-> article_groups[g_idx + 1][1].article.id,
                      outcome |-> outcome])
         /\ sheet_rows' =
              IF outcome = "saved"
              THEN Append(sheet_rows, SheetRow(article_groups[g_idx + 1]))
              ELSE sheet_rows
         /\ processed_count' = CountGroup(processed_count, outcome)
    /\ UNCHANGED <<pc, classifyVars, batchVars, dedupVars, cleanVars,
                   rateVars, dedup_config, dedup_enabled, article_groups,
                   review_tab, rejected_log>>

ProcessGroup == ProcessGroupOf(RunOutcomes)

\* return processed_count
ProcessReturn ==
    /\ pc = "process_tier1"
    /\ g_idx = Len(article_groups)
    /\ pc' = "save_tier2"
    /\ UNCHANGED <<classifyVars, batchVars, dedupVars, cleanVars, runVars,
                   rateVars>>

\* self._save_tier2(classified['tier2'])
SaveTier2 ==
    /\ pc = "save_tier2"
    /\ IF results.tier2 = <<>>
       THEN UNCHANGED review_tab
       ELSE \E success \in BOOLEAN :
              review_tab' = IF success THEN Some(results.tier2) ELSE review_tab
    /\ pc' = "log_rejected"
    /\ UNCHANGED <<classifyVars, batchVars, dedupVars, cleanVars, rateVars,
                   dedup_config, dedup_enabled, article_groups, g_idx,
                   group_outcomes, processed_count, sheet_rows, rejected_log>>

\* self._log_rejected(classified['rejected']), then the summary
LogRejected ==
    /\ pc = "log_rejected"
    /\ IF results.rejected = <<>>
       THEN UNCHANGED rejected_log
       ELSE \E success \in BOOLEAN :
              rejected_log' =
                IF success THEN Some(results.rejected) ELSE rejected_log
    /\ pc' = "run_done"
    /\ UNCHANGED <<classifyVars, batchVars, dedupVars, cleanVars, rateVars,
                   dedup_config, dedup_enabled, article_groups, g_idx,
                   group_outcomes, processed_count, sheet_rows, review_tab>>

NextRun ==
    \/ RunDiscover
    \/ RunClassifyStep
    \/ BatchReturn
    \/ RunDetectDuplicates
    \/ DedupEnter
    \/ OuterStep
    \/ RunInnerCompare
    \/ InnerSkip
    \/ InnerExit
    \/ SortGroups
    \/ RunTakeGroups
    \/ ProcessGroup
    \/ ProcessReturn
    \/ SaveTier2
    \/ LogRejected

SpecRun == InitRun /\ [][NextRun]_vars

----------------------------------------------------------------------------
(* Properties of a run *)

\* the members of a list of groups
MembersOf(gs) == UNION {{gs[g][p] : p \in 1..Len(gs[g])} : g \in 1..Len(gs)}

\* every item classified so far is, field for field, what classify returned
\* for its article and its judge call, and is in exactly one bucket
ItemsAsReturned ==
    \A k \in 1..idx :
      /\ Cardinality(Where(results, k)) = 1
      /\ \A bp \in Where(results, k) :
           results[bp[1]][bp[2]] = classify(articles[k], judge_calls[k]).value

\* every item the duplicate detection and the later stages hold is an item
\* of the tier-1 bucket, and the detection's input is that bucket
GroupsHoldBucketItems ==
    LET bucket == {results.tier1[p] : p \in 1..Len(results.tier1)}
    IN  /\ {tier1_articles[p] : p \in 1..Len(tier1_articles)} \subseteq bucket
        /\ {group[p] : p \in 1..Len(group)} \subseteq bucket
        /\ MembersOf(groups) \subseteq bucket
        /\ MembersOf(result_groups) \subseteq bucket
        /\ MembersOf(article_groups) \subseteq bucket
        /\ tier1_articles # <<>> => tier1_articles = results.tier1

\* is s a prefix of t
IsPrefix(s, t) == Len(s) <= Len(t) /\ s = SubSeq(t, 1, Len(s))

\* C14: the rule overlay inside classify is the only place a judgment is
\* changed.  The bucketing stores what classify returned; an item in a
\* bucket is never changed afterwards; detect_duplicates changes no field of
\* an item it is given or returns, and leaves its input list, the tier-1
\* bucket, with the same items in the same order.
C14_OnlyOverlayMutates ==
    /\ [](ItemsAsReturned /\ GroupsHoldBucketItems)
    /\ [][ /\ \A b \in Buckets : IsPrefix(results[b], results'[b])
           /\ articles' = articles
           /\ pc \notin {"run", "classify_batch"} => results' = results
           /\ tier1_articles # <<>> => tier1_articles' = tier1_articles ]_vars

C14_Witness ==
    /\ pc = "run_done"
    /\ Len(results.tier1) = 2
    /\ Len(results.rejected) = 1
    /\ results.rejected[1].category = <<"enterprise_strategy">>
    /\ Len(results.rejected[1].reason) = 2
    /\ tier1_articles = results.tier1
    /\ article_groups = << <<results.tier1[2], results.tier1[1]>> >>
    /\ Len(sheet_rows) = 1

\* the place of a stage in the order of run
StageRank(stage) ==
    CASE stage \in {"run"} -> 0
      [] stage \in {"classify_batch"} -> 1
      [] stage \in {"batch_done"} -> 2
      [] stage \in {"detect_duplicates", "outer", "inner"} -> 3
      [] stage \in {"dedup_done"} -> 4
      [] stage \in {"process_tier1"} -> 5
      [] stage \in {"save_tier2"} -> 6
      [] stage \in {"log_rejected"} -> 7
      [] stage \in {"run_done", "raised"} -> 8

\* C15: for each item the judgment is normalised, then the overlay runs,
\* then the tier is decided on the overlay's result; the oracle is called
\* only when every item has been put in its bucket, and only on items of the
\* tier-1 bucket; tier-1 processing starts only when the grouping is
\* complete, the tier-2 list is saved only after the last group has been
\* processed, and the rejected list is logged only after that.
C15_StageOrder ==
    [][ /\ StageRank(pc') >= StageRank(pc)
        /\ results' # results =>
             /\ idx' = idx + 1
             /\ judge_calls'[idx'].kind = "json" =>
                  LET item == _apply_rules(
                                Normalize(articles[idx'], judge_calls'[idx']),
                                articles[idx'])
                      bucket == TierOf(item)
                  IN  results' = [results EXCEPT
                                    ![bucket] = Append(@, item)]
             /\ oracle_calls = <<>> /\ g_idx = 0
             /\ review_tab = None /\ rejected_log = None
        /\ oracle_calls' # oracle_calls =>
             LET c == oracle_calls'[Len(oracle_calls')]
                 bucket == {results.tier1[p] : p \in 1..Len(results.tier1)}
             IN  /\ idx = Len(articles)
                 /\ Len(results.tier1) + Len(results.tier2)
                      + Len(results.rejected) = Len(articles)
                 /\ tier1_articles[c.i] \in bucket
                 /\ tier1_articles[c.j] \in bucket
                 /\ TierOf(tier1_articles[c.i]) = "tier1"
                 /\ TierOf(tier1_articles[c.j]) = "tier1"
                 /\ g_idx = 0 /\ sheet_rows = <<>>
                 /\ review_tab = None /\ rejected_log = None
        /\ g_idx' # g_idx =>
             /\ pc \notin {"detect_duplicates", "outer", "inner", "dedup_done"}
             /\ oracle_calls' = oracle_calls
             /\ MembersOf(article_groups)
                  = {results.tier1[p] : p \in 1..Len(results.tier1)}
             /\ review_tab = None /\ rejected_log = None
        /\ review_tab' # review_tab =>
             /\ g_idx = Len(article_groups)
             /\ review_tab' = <<results.tier2>>
             /\ rejected_log = None
        /\ rejected_log' # rejected_log =>
             /\ g_idx = Len(article_groups)
             /\ pc = "log_rejected"
             /\ rejected_log' = <<results.rejected>> ]_vars

C15_Witness ==
    /\ pc = "run_done"
    /\ Len(articles) = 4
    /\ Len(oracle_calls) = 1
    /\ Len(article_groups) = 2
    /\ processed_count = 2
    /\ review_tab # None
    /\ rejected_log # None
    /\ Len(rejected_log[1][1].reason) = 2

----------------------------------------------------------------------------
(* Further properties of one classification *)

\* the amount of the first of the patterns pats, in their order, that matches
FirstInOrder(pats, text) ==
    LET hit == {n \in 1..Len(pats) : re_search(pats[n], text) # None}
    IN  IF hit = {} THEN None
        ELSE LET n == CHOOSE x \in hit : \A y \in hit : x <= y
             IN  Some(Amount(re_search(pats[n], text)[1], pats[n].multiplier))

\* the four patterns by name
XBillion == [unit |-> "billion", ws |-> TRUE, multiplier |-> 1000 * 1000 * 1000]
XB == [unit |-> "B", ws |-> FALSE, multiplier |-> 1000 * 1000 * 1000]
XMillion == [unit |-> "million", ws |-> TRUE, multiplier |-> 1000 * 1000]
XM == [unit |-> "M", ws |-> FALSE, multiplier |-> 1000 * 1000]

\* the overlay acted on amount m: it left the judgment alone when there is no
\* amount or m is 0 or at least 50,000,000, and else recorded m in the reason
ActedOn(m) ==
    LET old == Normalize(c_article, c_response)
    IN  IF m = None \/ m[1] = 0 \/ m[1] >= 50000000
        THEN c_result[1] = old
        ELSE c_result[1].reason = old.reason \o <<FundingSuffix(m[1])>>

\* C21 as stated: the amount extracted from title + " " + synopsis is that
\* of the first pattern that matches in the order $X billion, $XB,
\* $X million, $XM, wherever in the text the matches are; so for a text
\* holding both a "$..B" amount and a "$.. million" amount the overlay acts
\* on the "$..B" amount.
C21_PatternOrder ==
    (OverlayRan /\ c_result[1].category = <<"enterprise_strategy">>)
      => ActedOn(FirstInOrder(<<XBillion, XB, XMillion, XM>>, RuleText))

\* C21, amended: the order is $X billion, $X million, $XB, $XM; pattern
\* order decides, not position in the text, and for a text holding both
\* "$2B" and "$40 million" the overlay acts on 40,000,000.
C21_LongFormsFirst ==
    (OverlayRan /\ c_result[1].category = <<"enterprise_strategy">>)
      => /\ ActedOn(FirstInOrder(<<XBillion, XMillion, XB, XM>>, RuleText))
         /\ ( /\ c_article.title = <<Dollar, Num(2), Unit("B")>>
              /\ c_article.summary = <<Dollar, Num(40), Ws, Unit("million")>> )
             => ActedOn(<<40000000>>)

C21_Witness ==
    /\ OverlayRan
    /\ c_article.title = <<Dollar, Num(2), Unit("B")>>
    /\ c_article.summary = <<Dollar, Num(40), Ws, Unit("million")>>
    /\ c_response.relevant
    /\ c_response.confidence = <<100>>
    /\ c_result[1].relevant = FALSE
    /\ c_result[1].confidence = 70
    /\ c_result[1].reason = JudgeReason \o <<FundingSuffix(40000000)>>

\* C22: for category "enterprise_strategy" the override is applied for every
\* amount found in the text that is below 50,000,000, an amount of 0
\* included: relevant becomes false and the confidence is reduced.
C22_OverrideFromZero ==
    LET old == Normalize(c_article, c_response)
        found == {n \in 1..Len(patterns) :
                    re_search(patterns[n], RuleText) # None}
        money == _extract_money_amount(RuleText)
    IN  (OverlayRan /\ old.category = <<"enterprise_strategy">>
           /\ found # {} /\ money[1] >= 0 /\ money[1] < 50000000)
          => /\ c_result[1].relevant = FALSE
             /\ c_result[1].confidence = Max(old.confidence - 30, 0)
             /\ c_result[1].reason # old.reason

\* C24: the overlay only downgrades: the returned judgment is relevant only
\* if the judge's was, and its confidence is not above the judge's; an item
\* the judge marked not relevant is rejected, and no item that the judge's
\* own answer would put in rejected is put in tier1 or tier2.
C24_OnlyDowngrades ==
    LET old == Normalize(c_article, c_response)
    IN  OverlayRan =>
          /\ c_result[1].relevant => old.relevant
          /\ c_result[1].confidence <= old.confidence
          /\ ~old.relevant => c_bucket = "rejected"
          /\ TierOf(old) = "rejected" => c_bucket = "rejected"

----------------------------------------------------------------------------
(* Further properties of classify_batch *)

\* C26: each bucket holds its items in input order: of two items in the same
\* bucket, the one that comes first in the input comes first in the bucket,
\* so every bucket is a subsequence of the input.
C26_BucketOrder ==
    \A b \in Buckets :
      /\ \A p, q \in 1..Len(results[b]) :
           p < q => results[b][p].article.id < results[b][q].article.id
      /\ \A p \in 1..Len(results[b]) :
           /\ results[b][p].article.id \in 1..Len(articles)
           /\ results[b][p].article = articles[results[b][p].article.id]

C26_Witness ==
    /\ pc = "batch_done"
    /\ Len(articles) = 3
    /\ Len(results.rejected) = 2
    /\ results.rejected[1].article = articles[1]
    /\ results.rejected[2].article = articles[3]
    /\ Len(results.tier2) = 1
    /\ results.tier2[1].article = articles[2]

----------------------------------------------------------------------------
(* Further properties of detect_duplicates *)

\* the place of the item with identity id in sequence g
PlaceOf(g, id) == CHOOSE p \in 1..Len(g) : g[p].article.id = id

\* C25: the sort within a group is stable.  Before it the anchor is first
\* and the other members follow in input order; two members with the same
\* source priority and the same synopsis length are in the same order after
\* it as before; so an anchor that no member beats is the primary, while a
\* member with a better key goes in front of the anchor.
C25_StableSort ==
    [][pc' = "dedup_done" =>
         \A g \in 1..Len(groups) :
           LET before == groups[g]
               after == result_groups'[g]
               Prio(x) == IF x.article.source = "a" THEN 1
                          ELSE IF x.article.source = "b" THEN 2
                          ELSE 999
               Syn(x) == Len(x.article.summary)
               Beats(x, y) == \/ Prio(x) < Prio(y)
                              \/ Prio(x) = Prio(y) /\ Syn(x) > Syn(y)
           IN  /\ \A p, q \in 1..Len(before) :
                    p < q => before[p].article.id < before[q].article.id
               /\ \A p, q \in 1..Len(after) :
                    (p < q /\ Prio(after[p]) = Prio(after[q])
                           /\ Syn(after[p]) = Syn(after[q]))
                      => PlaceOf(before, after[p].article.id)
                           < PlaceOf(before, after[q].article.id)
               /\ (\A m \in 2..Len(before) : ~Beats(before[m], before[1]))
                    => after[1] = before[1]
               /\ (\E m \in 2..Len(before) : Beats(before[m], before[1]))
                    => after[1] # before[1] ]_vars

C25_Witness ==
    /\ pc = "dedup_done"
    /\ Len(tier1_articles) = 3
    /\ tier1_articles[1].article.source = "a"
    /\ tier1_articles[3].article.source = "a"
    /\ Len(tier1_articles[1].article.summary) = 1
    /\ Len(tier1_articles[3].article.summary) = 1
    /\ result_groups = << <<tier1_articles[2], tier1_articles[1],
                            tier1_articles[3]>> >>

\* C27: before the sort, the anchor of a group is its member with the lowest
\* input position, and a member j that is not the anchor is in the group of
\* the lowest-positioned anchor i < j with which the oracle confirmed it:
\* every earlier anchor was asked about j and did not confirm it, and once
\* merged j is neither offered to a later anchor nor made an anchor itself.
C27_LowestAnchorWins ==
    pc \in {"outer", "inner"} =>
      LET open == IF pc = "inner" THEN <<group>> ELSE <<>>
          built == groups \o open
          anchors == {built[g][1].article.id : g \in 1..Len(built)}
      IN  \A g \in 1..Len(built) :
            LET anchor == built[g][1].article.id
            IN  \A p \in 2..Len(built[g]) :
                  LET m == built[g][p].article.id
                  IN  /\ anchor < m
                      /\ Confirmed(anchor, m)
                      /\ \A a \in anchors :
                           a < anchor => Asked(a, m) /\ ~Confirmed(a, m)
                      /\ m \notin anchors
                      /\ \A c \in 1..Len(oracle_calls) :
                           /\ oracle_calls[c].i # m
                           /\ oracle_calls[c].j = m
                                => oracle_calls[c].i <= anchor

C27_Witness ==
    /\ pc = "outer"
    /\ Len(tier1_articles) = 3
    /\ i = 4
    /\ Len(groups) = 2
    /\ Ids(groups[1]) = {1}
    /\ Ids(groups[2]) = {2, 3}
    /\ Asked(1, 3) /\ ~Confirmed(1, 3)
    /\ Confirmed(2, 3)

\* ------------------------------------------------------------------------
\* Further properties of a run

\* C23: nothing is tried again: at every moment of a run the judge has been
\* called exactly once for each item gone through, whether the call
\* succeeded or failed, so exactly once per input item when classify_batch
\* is over; and a pair whose oracle call failed is never compared again
C23_NoRetry ==
    /\ Len(judge_calls) = idx
    /\ idx <= Len(articles)
    /\ StageRank(pc) >= 2 => Len(judge_calls) = Len(articles)
    /\ \A m \in 1..Len(oracle_calls) :
         oracle_calls[m].failed =>
           \A n \in 1..Len(oracle_calls) :
             n # m => {oracle_calls[n].i, oracle_calls[n].j}
                        # {oracle_calls[m].i, oracle_calls[m].j}

\* a finished run of three items where one judge call failed and one
\* succeeded, and where the only oracle call failed
C23_Witness ==
    /\ pc = "run_done"
    /\ Len(articles) = 3
    /\ \E m \in 1..3 : judge_calls[m] = CallFailure
    /\ \E m \in 1..3 : judge_calls[m].kind = "json"
    /\ Len(oracle_calls) = 1
    /\ oracle_calls[1].failed

\* the grouping in which every tier-1 item is its own group, in tier-1 order
SingletonGroups(items) == [k \in 1..Len(items) |-> <<items[k]>>]

\* C28: when the duplicate detection is disabled, when its configuration
\* cannot be loaded (which disables it), or when the tier-1 bucket is empty,
\* the run makes no oracle call and takes every tier-1 item as its own
\* singleton group, in tier-1 order
C28_NoDetection ==
    LET off == \/ ~dedup_config.readable
               \/ dedup_config.enabled # Some(TRUE)
               \/ ~dedup_enabled
               \/ (StageRank(pc) >= 2 /\ results.tier1 = <<>>)
    IN  /\ ~dedup_config.readable => ~dedup_enabled
        /\ off => oracle_calls = <<>>
        /\ off /\ pc \in {"process_tier1", "save_tier2", "log_rejected",
                          "run_done"}
             => article_groups = SingletonGroups(results.tier1)

\* a finished run whose configuration could not be loaded and whose two
\* tier-1 items were taken as two singleton groups without an oracle call
C28_Witness ==
    /\ pc = "run_done"
    /\ ~dedup_config.readable
    /\ Len(results.tier1) = 2
    /\ article_groups = <<<<results.tier1[1]>>, <<results.tier1[2]>>>>
    /\ oracle_calls = <<>>

\* ------------------------------------------------------------------------
\* _process_tier1 on its own: every way each group's try block may end

MaxGroups == 3

\* group g of a grouping: a primary, alone or followed by one duplicate
ProcessInputGroup(g, size) ==
    [p \in 1..size |->
       Tier1Item(2 * (g - 1) + p, [source |-> "a", summary |-> <<Word>>])]

InitProcess ==
    /\ pc = "process_tier1"
    /\ \E n \in 0..MaxGroups : \E size \in [1..n -> 1..2] :
         article_groups = [g \in 1..n |-> ProcessInputGroup(g, size[g])]
    /\ g_idx = 0
    /\ group_outcomes = <<>>
    /\ processed_count = 0
    /\ sheet_rows = <<>>
    /\ dedup_config = [readable |-> FALSE, enabled |-> None]
    /\ dedup_enabled = FALSE
    /\ review_tab = None
    /\ rejected_log = None
    /\ IdleClassify
    /\ IdleBatch
    /\ IdleDedup
    /\ IdleClean
    /\ IdleRate

ProcessGroupAny == ProcessGroupOf(Outcomes)

NextProcess ==
    \/ ProcessGroupAny
    \/ ProcessReturn

SpecProcess == InitProcess /\ [][NextProcess]_vars

\* the groups gone through whose row was stored, as positions in the grouping
SavedGroups ==
    {k \in 1..Len(group_outcomes) : group_outcomes[k].outcome = "saved"}

\* the n-th smallest element of a set of numbers
NthOf(S, n) == CHOOSE k \in S : Cardinality({m \in S : m <= k}) = n

\* C29: in _process_tier1 the groups are gone through in order, each once,
\* whatever happened to the groups before; a group gets at most one row, the
\* row of its member 0, and gets it exactly when fetch, research, summarize
\* and the sink write all succeeded; the count returned is the number of
\* groups whose sink write succeeded, between 0 and the number of groups
C29_ProcessTier1 ==
    /\ Len(group_outcomes) = g_idx
    /\ g_idx <= Len(article_groups)
    /\ pc # "process_tier1" => g_idx = Len(article_groups)
    /\ \A k \in 1..g_idx :
         group_outcomes[k].primary = article_groups[k][1].article.id
    /\ Len(sheet_rows) = Cardinality(SavedGroups)
    /\ \A n \in 1..Len(sheet_rows) :
         sheet_rows[n] = SheetRow(article_groups[NthOf(SavedGroups, n)])
    /\ processed_count = Cardinality(SavedGroups)
    /\ 0 <= processed_count /\ processed_count <= Len(article_groups)

\* _process_tier1 has returned 1 for three groups: the fetch of the first
\* raised, the row of the second, which has a duplicate, was stored, and the
\* sink refused the row of the third
C29_Witness ==
    /\ pc = "save_tier2"
    /\ Len(article_groups) = 3
    /\ Len(article_groups[2]) = 2
    /\ group_outcomes[1].outcome = "fetch_error"
    /\ group_outcomes[2].outcome = "saved"
    /\ group_outcomes[3].outcome = "not_saved"
    /\ processed_count = 1
    /\ Len(sheet_rows) = 1
    /\ sheet_rows[1].primary = article_groups[2][1].article.id

\* ------------------------------------------------------------------------
\* RateLimiter: one caller, a clock that never goes back, times in whole
\* seconds

MaxClock == 4
MaxRecorded == 3

\* (now - call_time).total_seconds()
Age(call_time, t) == t - call_time

\* can_proceed returning len(self.calls) <= self.max_calls
can_proceed_AtMost(cs, t, window, limit) ==
    LET kept == SelectSeq(cs, LAMBDA call_time : Age(call_time, t) < window)
    IN  [calls |-> kept, result |-> Len(kept) <= limit]

\* can_proceed: the calls it keeps and what it returns
can_proceed(cs, t, window, limit) ==
    LET kept == SelectSeq(cs, LAMBDA call_time : Age(call_time, t) < window)
    IN  [calls |-> kept, result |-> Len(kept) < limit]

\* record_call
record_call(cs, t) == Append(cs, t)

\* RateLimiter(max_calls, time_window)
InitRateLimiter ==
    /\ pc = "rate_limiter"
    /\ max_calls \in 1..2
    /\ time_window \in 1..2
    /\ calls = <<>>
    /\ now = 0
    /\ rl_last = NoOperation
    /\ rl_disciplined = TRUE
    /\ IdleClassify
    /\ IdleBatch
    /\ IdleDedup
    /\ IdleClean
    /\ IdleRun

\* a second goes by
Tick ==
    /\ pc = "rate_limiter"
    /\ now < MaxClock
    /\ now' = now + 1
    /\ UNCHANGED <<pc, classifyVars, batchVars, dedupVars, cleanVars, runVars,
                   max_calls, time_window, calls, rl_last, rl_disciplined>>

\* the caller calls can_proceed()
CanProceed ==
    /\ pc = "rate_limiter"
    /\ LET r == can_proceed(calls, now, time_window, max_calls)
       IN  /\ calls' = r.calls
           /\ rl_last' = [op |-> "can_proceed", result |-> r.result,
                          at |-> now, dropped |-> Len(calls) - Len(r.calls)]
    /\ UNCHANGED <<pc, classifyVars, batchVars, dedupVars, cleanVars, runVars,
                   max_calls, time_window, now, rl_disciplined>>

\* the caller calls record_call(), whatever can_proceed said
RecordCall ==
    /\ pc = "rate_limiter"
    /\ Len(calls) < MaxRecorded
    /\ calls' = record_call(calls, now)
    /\ rl_disciplined' =
         (rl_disciplined /\ rl_last.op = "can_proceed" /\ rl_last.result)
    /\ rl_last' = [op |-> "record_call", result |-> TRUE, at |-> now,
                   dropped |-> 0]
    /\ UNCHANGED <<pc, classifyVars, batchVars, dedupVars, cleanVars, runVars,
                   max_calls, time_window, now>>

NextRateLimiter ==
    \/ Tick
    \/ CanProceed
    \/ RecordCall

SpecRateLimiter == InitRateLimiter /\ [][NextRateLimiter]_vars

\* the recorded calls whose age is less than time_window, as positions
RecentCalls ==
    {k \in 1..Len(calls) : Age(calls[k], now) < time_window}

\* C30: while the caller has recorded a call only right after can_proceed
\* returned True, the recorded calls whose age is less than time_window are
\* at most max_calls at every moment; can_proceed leaves no recorded call
\* whose age is time_window or more; and record_call never refuses: it can
\* always be called and appends the current time
C30_RateLimiter ==
    /\ rl_disciplined => Cardinality(RecentCalls) <= max_calls
    /\ rl_last.op = "can_proceed" =>
         /\ \A k \in 1..Len(calls) : Age(calls[k], rl_last.at) < time_window
         /\ rl_last.result = (Len(calls) < max_calls)
    /\ Len(calls) < MaxRecorded => ENABLED RecordCall
    /\ rl_last.op = "record_call" =>
         /\ calls # <<>>
         /\ calls[Len(calls)] = rl_last.at

\* a caller who kept to the discipline with a limiter of one call per two
\* seconds: the call recorded has aged out, and can_proceed has just dropped
\* it and returned True
C30_Witness ==
    /\ rl_disciplined
    /\ max_calls = 1
    /\ time_window = 2
    /\ rl_last = [op |-> "can_proceed", result |-> TRUE, at |-> 2,
                  dropped |-> 1]
    /\ calls = <<>>

=============================================================================
